---- MODULE Spec2Model ----
(***************************************************************************)
(* Model of the scheme-retrieval service: the /api/schemes route (search   *)
(* page fetch, __NEXT_DATA__ tree scan, anchor scan, graceful degradation) *)
(* and the /api/geo reverse-geocoding route.                               *)
(*                                                                         *)
(* Text is a sequence of pieces.  Text the code inspects (slugs, titles,   *)
(* hrefs, paragraphs, the district) is a sequence of one-character         *)
(* strings; text the code only copies (notes, the site origin, curated     *)
(* titles) is kept as one piece.                                           *)
(***************************************************************************)
EXTENDS Integers, Sequences, FiniteSets

\* ------------------------------------------------------------------ bounds
\* Number of object/array nodes of the graphs handed to the tree scanner.
MaxNodes == 3
\* Number of <a> elements of the pages handed to the anchor scanner.
MaxAnchors == 2

\* ------------------------------------------------------- JavaScript strings
WS == {" ", "\t", "\n"}

RECURSIVE TrimStart(_)
TrimStart(s) ==
  IF s # <<>> /\ Head(s) \in WS THEN TrimStart(Tail(s)) ELSE s

RECURSIVE TrimEnd(_)
TrimEnd(s) ==
  IF s # <<>> /\ s[Len(s)] \in WS THEN TrimEnd(SubSeq(s, 1, Len(s) - 1)) ELSE s

\* String.prototype.trim
Trim(s) == TrimEnd(TrimStart(s))

\* String.prototype.startsWith
StartsWith(s, p) == Len(s) >= Len(p) /\ SubSeq(s, 1, Len(p)) = p

\* String.prototype.includes
Includes(s, p) ==
  \E i \in 0..(Len(s) - Len(p)) : SubSeq(s, i + 1, i + Len(p)) = p

\* s.replace(/^\/+/, "")
RECURSIVE StripLeadingSlashes(_)
StripLeadingSlashes(s) ==
  IF s # <<>> /\ Head(s) = "/" THEN StripLeadingSlashes(Tail(s)) ELSE s

\* s.replace(/\s+/g, " ")
RECURSIVE CollapseWS(_)
CollapseWS(s) ==
  IF s = <<>> THEN <<>>
  ELSE IF Head(s) \in WS
       THEN <<" ">> \o CollapseWS(TrimStart(s))
       ELSE <<Head(s)>> \o CollapseWS(Tail(s))

LowerChar(c) ==
  CASE c = "N" -> "n" [] c = "A" -> "a" [] c = "G" -> "g" [] c = "P" -> "p"
    [] c = "U" -> "u" [] c = "R" -> "r" [] c = "K" -> "k" [] c = "E" -> "e"
    [] OTHER -> c

\* String.prototype.toLowerCase
ToLowerCase(s) == [i \in 1..Len(s) |-> LowerChar(s[i])]

\* n copies of the character c
Rep(c, n) == [i \in 1..n |-> c]

\* -------------------------------------------------------- JavaScript values
\* A value is undefined, null, a string, a number or a reference to an
\* object/array node of the heap.
Undef == [k |-> "undefined", s |-> <<>>, n |-> 0]
Null == [k |-> "null", s |-> <<>>, n |-> 0]
Str(s) == [k |-> "string", s |-> s, n |-> 0]
Num(n) == [k |-> "number", s |-> <<>>, n |-> n]
Ref(n) == [k |-> "object", s |-> <<>>, n |-> n]

\* ToBoolean
Truthy(v) ==
  CASE v.k = "string" -> v.s # <<>>
    [] v.k = "number" -> v.n # 0
    [] v.k = "object" -> TRUE
    [] OTHER -> FALSE

\* a || b
Or(a, b) == IF Truthy(a) THEN a ELSE b

Digit(n) ==
  CASE n = 0 -> "0" [] n = 1 -> "1" [] n = 2 -> "2" [] n = 3 -> "3"
    [] n = 4 -> "4" [] n = 5 -> "5" [] n = 6 -> "6" [] n = 7 -> "7"
    [] n = 8 -> "8" [] OTHER -> "9"

\* v.toString() of a string or a one-digit number
ToString(v) == IF v.k = "number" THEN <<Digit(v.n)>> ELSE v.s

\* typeof v === "object" && v   (null is excluded by the truthiness tests)
IsObject(v) == v.k = "object"


\* ------------------------------------------------------------- object graph
\* A node of the parsed JSON graph: an array, or an object with the scalar
\* fields the scanner reads.  kids are the object-valued entries, in key
\* (or index) order; scalar entries are skipped by the scanner.
NodeIds == 1..MaxNodes

Plain ==
  [kind |-> "object", title |-> Undef, name |-> Undef, slug |-> Undef,
   path |-> Undef, url |-> Undef, description |-> Undef, excerpt |-> Undef,
   summary |-> Undef]

ArrayNode == [Plain EXCEPT !.kind = "array"]

s_scheme_a == <<"s", "c", "h", "e", "m", "e", "/", "a">>
s_schemes_b == <<"s", "c", "h", "e", "m", "e", "s", "/", "b">>
s_schemez == <<"/", "s", "c", "h", "e", "m", "e", "z">>
s_httpx == <<"h", "t", "t", "p", "x">>
s_https == <<"h", "t", "t", "p", "s", ":", "/", "/", "x">>
s_other == <<"o", "t", "h", "e", "r", "/", "x">>

\* The object shapes the graphs are built from.
Payloads ==
  { Plain,
    ArrayNode,
    [Plain EXCEPT !.title = Str(<<" ", "A", " ">>), !.slug = Str(s_scheme_a),
                  !.description = Str(<<" ", "d", "\n">>)],
    [Plain EXCEPT !.name = Str(<<"B">>), !.path = Str(<<"/">> \o s_scheme_a),
                  !.description = Str(<<" ", " ">>), !.summary = Str(<<"s">>)],
    [Plain EXCEPT !.title = Str(<<"C">>), !.url = Str(s_schemez),
                  !.excerpt = Str(<<"e">>)],
    [Plain EXCEPT !.title = Str(<<" ", "\t">>), !.name = Str(<<"N">>),
                  !.slug = Str(s_schemes_b)],
    [Plain EXCEPT !.title = Num(7), !.slug = Null, !.url = Str(s_httpx)],
    [Plain EXCEPT !.title = Str(<<"F">>), !.slug = Str(s_other)],
    [Plain EXCEPT !.name = Str(<<"G">>), !.slug = Str(<<" ">> \o s_schemes_b \o <<" ">>)],
    [Plain EXCEPT !.title = Str(<<"H">>), !.url = Str(s_https)] }

\* The reference structures of the graphs: chains, rings (cyclic), stars and
\* stars with a repeated or a self reference.  Node 1 is the root.
Others == [i \in 1..(MaxNodes - 1) |-> i + 1]

Shapes ==
  { [n \in NodeIds |-> IF n < MaxNodes THEN <<n + 1>> ELSE <<>>],
    [n \in NodeIds |-> IF n < MaxNodes THEN <<n + 1>> ELSE <<1>>],
    [n \in NodeIds |-> IF n = 1 THEN Others ELSE <<>>],
    [n \in NodeIds |-> IF n = 1 THEN Others \o <<2>> ELSE <<1>>],
    [n \in NodeIds |-> IF n = 1 THEN <<1>> \o Others ELSE <<n>>] }

Heaps ==
  { [n \in NodeIds |-> [node |-> f[n], kids |-> sh[n]]] :
      f \in [NodeIds -> Payloads], sh \in Shapes }

\* ------------------------------------------------------------- tree scanner
NoDescription == <<>>

\* (it.title || it.name) && (it.slug || it.path || it.url)
LooksLikeScheme(o) ==
  Truthy(Or(o.title, o.name)) /\ Truthy(Or(Or(o.slug, o.path), o.url))

\* the href pushItem derives from the trimmed slug; <<>> when rejected
SlugHref(slug) ==
  IF slug = <<>> THEN <<>>
  ELSE IF StartsWith(slug, <<"h", "t", "t", "p">>) THEN slug
  ELSE IF StartsWith(slug, <<"/", "s", "c", "h", "e", "m", "e">>)
          \/ StartsWith(slug, <<"s", "c", "h", "e", "m", "e", "/">>)
       THEN <<"/">> \o StripLeadingSlashes(slug)
  ELSE IF StartsWith(slug, <<"/", "s", "c", "h", "e", "m", "e", "s">>)
          \/ StartsWith(slug, <<"s", "c", "h", "e", "m", "e", "s", "/">>)
       THEN <<"/">> \o StripLeadingSlashes(slug)
  ELSE <<>>

\* (a || b || "").toString().trim() || undefined
Description(text) ==
  [hasDescription |-> text # <<>>,
   description |-> IF text # <<>> THEN text ELSE NoDescription]

\* pushItem with a fault: title and description are used untrimmed.
pushItem_Untrimmed(its, o, src) ==
  LET title == ToString(Or(Or(o.title, o.name), Str(<<>>)))
      slug == Trim(ToString(Or(Or(Or(o.slug, o.path), o.url), Str(<<>>))))
      href == SlugHref(slug)
      d == Description(ToString(
             Or(Or(Or(o.description, o.excerpt), o.summary), Str(<<>>))))
  IN IF title = <<>> THEN its
     ELSE IF href = <<>> THEN its
     ELSE Append(its, [title |-> title, href |-> href,
                       hasDescription |-> d.hasDescription,
                       description |-> d.description, sourceUrl |-> src])

\* pushItem: the items list after the candidate o has been offered
pushItem(its, o, src) ==
  LET title == Trim(ToString(Or(Or(o.title, o.name), Str(<<>>))))
      slug == Trim(ToString(Or(Or(Or(o.slug, o.path), o.url), Str(<<>>))))
      href == SlugHref(slug)
      d == Description(Trim(ToString(
             Or(Or(Or(o.description, o.excerpt), o.summary), Str(<<>>)))))
  IN IF title = <<>> THEN its
     ELSE IF href = <<>> THEN its
     ELSE Append(its, [title |-> title, href |-> href,
                       hasDescription |-> d.hasDescription,
                       description |-> d.description, sourceUrl |-> src])

\* The for-loop over the entries of the popped node: each object-valued entry
\* is offered to pushItem when it has the scheme shape, then pushed.
RECURSIVE VisitEntries(_, _, _, _, _)
VisitEntries(h, kids, its, stk, src) ==
  IF kids = <<>> THEN [items |-> its, stack |-> stk]
  ELSE LET it == h[Head(kids)].node
       IN VisitEntries(h, Tail(kids),
                       IF LooksLikeScheme(it) THEN pushItem(its, it, src) ELSE its,
                       Append(stk, Ref(Head(kids))), src)

\* Map.prototype.set on an insertion-ordered list of entries
MapSet(entries, i) ==
  IF \E j \in 1..Len(entries) : entries[j].href = i.href
  THEN [j \in 1..Len(entries) |-> IF entries[j].href = i.href THEN i ELSE entries[j]]
  ELSE Append(entries, i)

\* Array.from(new Map(items.map((i) => [i.href, i])).values())
RECURSIVE MapFrom(_, _)
MapFrom(entries, its) ==
  IF its = <<>> THEN entries ELSE MapFrom(MapSet(entries, Head(its)), Tail(its))

\* DedupByHref with a fault: the items are returned as collected.
DedupByHref_None(its) == its

DedupByHref(its) == MapFrom(<<>>, its)

\* ----------------------------------------------------------- anchor scanner
\* An <a> element of the loaded document: its href attribute, its text, and
\* whether it has an article/li/div/section ancestor, with the text of the
\* first <p> under that ancestor ("" when there is none).
p_scheme_a == <<"/">> \o s_scheme_a

AnchorEls ==
  { [href |-> Str(p_scheme_a), text |-> <<" ", "A", "\n", " ", "x", " ">>,
     card |-> TRUE, para |-> <<" ">> \o Rep("p", 10) \o <<" ", "\n">> \o Rep("q", 10) \o <<" ">>],
    [href |-> Str(<<"/">> \o p_scheme_a), text |-> <<"B">>,
     card |-> TRUE, para |-> Rep("p", 20)],
    [href |-> Str(s_https \o <<"/">> \o s_schemes_b), text |-> <<"C">>,
     card |-> FALSE, para |-> Rep("p", 30)],
    [href |-> Str(<<"/">> \o s_schemes_b), text |-> <<" ", "\n">>,
     card |-> TRUE, para |-> Rep("p", 30)],
    [href |-> Str(s_other), text |-> <<"E">>, card |-> TRUE, para |-> Rep("p", 30)],
    [href |-> Str(<<" ", "/">> \o s_schemes_b \o <<" ">>), text |-> <<"F">>,
     card |-> TRUE, para |-> Rep("p", 10) \o <<" ", " ", " ">> \o Rep("q", 9)],
    [href |-> Undef, text |-> <<"G">>, card |-> TRUE, para |-> Rep("p", 30)],
    [href |-> Str(s_schemez), text |-> <<"H">>, card |-> TRUE, para |-> <<>>] }

RECURSIVE SeqsUpTo(_, _)
SeqsUpTo(S, n) ==
  IF n = 0 THEN {<<>>}
  ELSE LET shorter == SeqsUpTo(S, n - 1)
       IN shorter \cup {Append(q, x) : q \in shorter, x \in S}

\* The documents handed to the anchor scanner: their <a> elements in order.
Documents == SeqsUpTo(AnchorEls, MaxAnchors)

\* a[href*="/scheme"], a[href*="/schemes"]
Selected(el) ==
  el.href.k = "string"
  /\ (Includes(el.href.s, <<"/", "s", "c", "h", "e", "m", "e">>)
      \/ Includes(el.href.s, <<"/", "s", "c", "h", "e", "m", "e", "s">>))

\* the shortest paragraph length accepted as a description is one more
MinParaLen == 20

\* CardDescription with a fault: a paragraph of exactly MinParaLen is accepted.
CardDescription_OffByOne(el) ==
  IF el.card
  THEN LET para == Trim(CollapseWS(el.para))
       IN IF para # <<>> /\ Len(para) >= MinParaLen THEN para ELSE <<>>
  ELSE <<>>

\* the description the callback derives from the enclosing card
CardDescription(el) ==
  IF el.card
  THEN LET para == Trim(CollapseWS(el.para))
       IN IF para # <<>> /\ Len(para) > MinParaLen THEN para ELSE <<>>
  ELSE <<>>

\* The .each callback: [seen, items] after the selected element el.
eachAnchor(sn, its, el, src) ==
  LET rawHref == Trim(ToString(Or(el.href, Str(<<>>))))
      href == IF StartsWith(rawHref, <<"h", "t", "t", "p">>) THEN rawHref
              ELSE <<"/">> \o StripLeadingSlashes(rawHref)
      title == Trim(CollapseWS(el.text))
      d == Description(CardDescription(el))
      same == [seen |-> sn, items |-> its]
  IN IF rawHref = <<>> THEN same
     ELSE IF href \in sn THEN same
     ELSE IF title = <<>> THEN same
     ELSE [seen |-> sn \cup {href},
           items |-> Append(its, [title |-> title, href |-> href,
                                  hasDescription |-> d.hasDescription,
                                  description |-> d.description,
                                  sourceUrl |-> src])]

\* ------------------------------------------------------------ URLs, queries
\* the words of a phrase joined by single spaces
RECURSIVE Words(_)
Words(ws) ==
  IF Len(ws) <= 1 THEN ws ELSE <<Head(ws), " ">> \o Words(Tail(ws))

\* URLSearchParams serialisation of the pieces used here: a space becomes +
FormEncode(q) == [i \in 1..Len(q) |-> IF q[i] = " " THEN "+" ELSE q[i]]

\* encodeURIComponent of the pieces used here: a space becomes %20
encodeURIComponent(q) == [i \in 1..Len(q) |-> IF q[i] = " " THEN "%20" ELSE q[i]]

searchUrl(q) == <<"https://www.myscheme.gov.in/search", "?q=">> \o FormEncode(q)

makeSearchHref(term) ==
  <<"https://www.myscheme.gov.in/search?q=">>
    \o encodeURIComponent(term \o <<" ", "Nagpur", " ", "Maharashtra">>)

Curated(title, term, description) ==
  [title |-> title, href |-> makeSearchHref(Words(term)), hasDescription |-> TRUE,
   description |-> description, sourceUrl |-> <<"https://www.myscheme.gov.in">>]

MOCK_NAGPUR_SCHEMES ==
  << Curated(<<"Pradhan Mantri Awas Yojana (Urban)">>,
             <<"Pradhan", "Mantri", "Awas", "Yojana", "Urban">>,
             <<"Affordable housing benefits for eligible urban beneficiaries in Nagpur.">>),
     Curated(<<"Ayushman Bharat - PM-JAY">>,
             <<"Ayushman", "Bharat", "PM-JAY">>,
             <<"Health insurance coverage for eligible families.">>),
     Curated(<<"Pradhan Mantri Ujjwala Yojana">>,
             <<"Pradhan", "Mantri", "Ujjwala", "Yojana">>,
             <<"Subsidized LPG connections for eligible households.">>),
     Curated(<<"PM-KISAN Samman Nidhi">>,
             <<"PM", "Kisan", "Samman", "Nidhi">>,
             <<"Income support for eligible farmers.">>),
     Curated(<<"Atal Pension Yojana">>,
             <<"Atal", "Pension", "Yojana">>,
             <<"Voluntary pension scheme for unorganised sector workers.">>),
     Curated(<<"Pradhan Mantri Mudra Yojana">>,
             <<"Pradhan", "Mantri", "Mudra", "Yojana">>,
             <<"Loans for micro/small enterprises.">>),
     Curated(<<"Stand Up India Scheme">>,
             <<"Stand", "Up", "India">>,
             <<"Loans for women and SC/ST entrepreneurs.">>),
     Curated(<<"Sukanya Samriddhi Yojana">>,
             <<"Sukanya", "Samriddhi", "Yojana">>,
             <<"Savings scheme for the girl child.">>),
     Curated(<<"National Social Assistance Programme (Pension)">>,
             <<"National", "Social", "Assistance", "Pension">>,
             <<"Central pension support for eligible elderly/widow/disabled persons.">>),
     Curated(<<"Mahatma Jyotiba Phule Jan Arogya Yojana (MJPJAY)">>,
             <<"Mahatma", "Jyotiba", "Phule", "Jan", "Arogya", "Yojana">>,
             <<"Maharashtra state health insurance scheme.">>),
     Curated(<<"eShram Registration">>,
             <<"eShram">>,
             <<"National database for unorganised workers with benefits access.">>),
     Curated(<<"Swachh Bharat Mission - Urban">>,
             <<"Swachh", "Bharat", "Mission", "Urban">>,
             <<"Urban sanitation and cleanliness initiatives.">>) >>

\* ------------------------------------------------------- requests and pages
\* Query parameters: searchParams.get gives null when the parameter is absent.
SchemesRequests ==
  [endpoint : {"schemes"},
   state : {Null, Str(<<>>), Str(<<"Odisha">>), Str(<<"Tamil", " ", "Nadu">>)},
   district : {Null, Str(<<>>),
               Str(<<"N", "a", "g", "p", "u", "r">>),
               Str(<<"E", " ", "N", "A", "G", "P", "U", "R", " ", "x">>),
               Str(<<"N", "a", "g", "p", "u">>),
               Str(<<"K", "h", "o", "r", "d", "h", "a">>)},
   lat : {Null}, lon : {Null}]

RegionRequests ==
  [endpoint : {"region"}, state : {Null}, district : {Null},
   lat : {Null, Str(<<>>), Str(<<"21.1">>)},
   lon : {Null, Str(<<>>), Str(<<"79.0">>)}]

EmptyHeap == [n \in NodeIds |-> [node |-> Plain, kids |-> <<>>]]

\* Contents of the __NEXT_DATA__ script of a page: no such script, text that is
\* not JSON, or a JSON value (a scalar, or the root of an object graph).
NoNextData == [kind |-> "absent", value |-> Undef, heap |-> EmptyHeap]

SchemeA == CHOOSE o \in Payloads : o.title = Str(<<" ", "A", " ">>)

SchemeC == CHOOSE o \in Payloads : o.title = Str(<<"C">>)

NextDatas ==
  { NoNextData,
    [NoNextData EXCEPT !.kind = "unparsable"],
    [NoNextData EXCEPT !.kind = "json", !.value = Null],
    [NoNextData EXCEPT !.kind = "json", !.value = Num(5)],
    [NoNextData EXCEPT !.kind = "json", !.value = Ref(1)],
    [kind |-> "json", value |-> Ref(1),
     heap |-> [n \in NodeIds |->
                [node |-> IF n = 1 THEN ArrayNode ELSE IF n = 2 THEN SchemeA ELSE SchemeC,
                 kids |-> IF n = 1 THEN Others ELSE <<>>]]] }

AnyEl == CHOOSE el \in AnchorEls : el.text = <<"B">>

OtherEl == CHOOSE el \in AnchorEls : el.text = <<"E">>

\* The body of a fetched search page; empty is a response with no text at all.
BlankPage == [empty |-> TRUE, nd |-> NoNextData, anchors |-> <<>>]

Pages ==
  {BlankPage} \cup
  [empty : {FALSE}, nd : NextDatas, anchors : {<<>>, <<AnyEl>>, <<OtherEl>>}]

\* What the global fetch does: it rejects, or resolves with a status that is
\* not ok, or resolves ok with a body.
FetchOutcomes ==
  {[kind |-> "throw", page |-> BlankPage], [kind |-> "status", page |-> BlankPage]}
    \cup [kind : {"ok"}, page : Pages]

\* fetchText: the page text, or null
fetchText(out) == IF out.kind = "ok" THEN [null |-> FALSE, page |-> out.page]
                  ELSE [null |-> TRUE, page |-> BlankPage]

\* !html : null, or the empty string
NoHtml(html) == html.null \/ html.page.empty

\* extractNextDataFromHtml: the parsed value, or null
extractNextDataFromHtml(page) ==
  IF page.nd.kind = "json" THEN page.nd.value ELSE Null

\* A value thrown inside the handler's try block; message is err?.message.
Faults == {[message |-> Str(<<"boom">>)], [message |-> Undef], [message |-> Str(<<>>)]}

\* ---------------------------------------------------------------- responses
NoAddress == [state_district |-> Undef, district |-> Undef, county |-> Undef, state |-> Undef]

\* A response: its status, the keys of its JSON body and their values.
NoResponse ==
  [status |-> 0, keys |-> {}, items |-> <<>>, sourceUrl |-> <<>>, note |-> <<>>,
   error |-> <<>>, state |-> Undef, district |-> Undef, raw |-> NoAddress]

NullItems == [null |-> TRUE, list |-> <<>>]

SomeItems(l) == [null |-> FALSE, list |-> l]

\* items.length ? items : null
NonEmptyOrNull(l) == IF Len(l) > 0 THEN SomeItems(l) ELSE NullItems

MissingState ==
  [NoResponse EXCEPT !.status = 400, !.keys = {"items", "note"},
                     !.note = <<"Missing state parameter">>]

MockMode(src) ==
  [NoResponse EXCEPT !.status = 200, !.keys = {"items", "sourceUrl", "note"},
                     !.items = MOCK_NAGPUR_SCHEMES, !.sourceUrl = src,
                     !.note = <<"Showing curated Nagpur schemes (mock data).">>]

Found(its, src) ==
  [NoResponse EXCEPT !.status = 200, !.keys = {"items", "sourceUrl"},
                     !.items = its, !.sourceUrl = src]

DegradeNote ==
  <<"Could not retrieve schemes programmatically right now. You can browse directly on myScheme using the link above.">>

Degraded(src) ==
  [NoResponse EXCEPT !.status = 200, !.keys = {"items", "sourceUrl", "note"},
                     !.sourceUrl = src, !.note = DegradeNote]

\* Unexpected with a fault: the fault is reported with a server-error status.
Unexpected_Status500(err, src) ==
  [NoResponse EXCEPT !.status = 500, !.keys = {"items", "sourceUrl", "note", "error"},
                     !.sourceUrl = src,
                     !.note = <<"Unexpected error while fetching data.">>,
                     !.error = ToString(Or(err.message, Str(<<"Unknown error">>)))]

\* the catch block of the schemes handler
Unexpected(err, src) ==
  [NoResponse EXCEPT !.status = 200, !.keys = {"items", "sourceUrl", "note", "error"},
                     !.sourceUrl = src,
                     !.note = <<"Unexpected error while fetching data.">>,
                     !.error = ToString(Or(err.message, Str(<<"Unknown error">>)))]

\* -------------------------------------------------------------------- state
VARIABLES
  pc,           \* where the handler (or the scanner under test) stands
  caller,       \* "GET": a request is being served; "direct": a scanner run
  req,          \* the request
  sourceUrl,    \* GET: the deep link built from the query
  url,          \* trySearchNextData / tryHtmlSearch: the page url
  jsonItems,    \* GET: result of trySearchNextData
  htmlItems,    \* GET: result of tryHtmlSearch
  response,     \* the response sent
  inflight,     \* outbound fetches not yet settled
  trace,        \* the calls made and the results returned, in order
  err,          \* GET /api/schemes: the value caught by the catch block
  answer,       \* GET /api/geo: what the reverse-geocoding call did
  heap,         \* collectSchemeItemsFromUnknownJson: the graph of data
  stack,        \*   its stack
  visited,      \*   its visited set
  expanded,     \*   the nodes whose entries it has enumerated, in order
  items,        \*   its items
  collected,    \*   its return value
  els,          \* tryHtmlSearch: the <a> elements .each has yet to reach
  seen,         \*   its seen set
  anchorItems,  \*   its items
  anchored      \*   its return value

vars ==
  <<pc, caller, req, sourceUrl, url, jsonItems, htmlItems, response, inflight,
    trace, err, answer, heap, stack, visited, expanded, items, collected, els, seen,
    anchorItems, anchored>>

handlerVars ==
  <<req, sourceUrl, jsonItems, htmlItems, response, inflight, trace, err, answer>>

treeVars == <<heap, stack, visited, expanded, items, collected>>

anchorVars == <<els, seen, anchorItems, anchored>>

NoFault == [message |-> Null]

NoAnswer ==
  [kind |-> "none", status |-> 0, message |-> Undef, data |-> "none",
   address |-> NoAddress]

NoRequest ==
  [endpoint |-> "none", state |-> Null, district |-> Null, lat |-> Null, lon |-> Null]

Idle ==
  /\ sourceUrl = <<>> /\ url = <<>>
  /\ jsonItems = NullItems /\ htmlItems = NullItems
  /\ response = NoResponse /\ inflight = 0 /\ trace = <<>>
  /\ err = NoFault /\ answer = NoAnswer
  /\ heap = EmptyHeap /\ stack = <<>> /\ visited = {} /\ expanded = <<>>
  /\ items = <<>>
  /\ collected = <<>>
  /\ els = <<>> /\ seen = {} /\ anchorItems = <<>> /\ anchored = NullItems

\* A request has arrived at one of the two routes.
Init ==
  /\ pc = "request" /\ caller = "GET"
  /\ req \in SchemesRequests \cup RegionRequests
  /\ Idle

\* ------------------------------------------------------------ /api/schemes
Query(state, district) ==
  IF district # <<>> THEN state \o <<" ">> \o district ELSE state

\* IsNagpur with a fault: the district is not lower-cased before the test.
IsNagpur_CaseSensitive(district) ==
  Includes(district, <<"n", "a", "g", "p", "u", "r">>)

IsNagpur(district) ==
  Includes(ToLowerCase(district), <<"n", "a", "g", "p", "u", "r">>)

\* tryHtmlSearch up to its await: the second fetch of the search page starts.
CallTryHtmlSearch(tr, fl) ==
  /\ pc' = "fetchHtml"
  /\ inflight' = fl + 1
  /\ trace' = tr \o <<"tryHtmlSearch", "fetch">>
  /\ response' = response

\* AfterNextData with a fault: the fallback is started whatever r holds.
AfterNextData_NoShortCircuit(r, tr, fl) ==
  /\ jsonItems' = r
  /\ CallTryHtmlSearch(tr, fl)

\* GET after trySearchNextData has returned r: respond, or fall back.
AfterNextData(r, tr, fl) ==
  /\ jsonItems' = r
  /\ IF ~r.null /\ Len(r.list) > 0
     THEN /\ response' = Found(r.list, sourceUrl)
          /\ pc' = "done"
          /\ trace' = tr
          /\ inflight' = fl
     ELSE CallTryHtmlSearch(tr, fl)

\* AfterHtmlSearch with a fault: an empty result is surfaced as an upstream error.
AfterHtmlSearch_BadGateway(r, tr) ==
  /\ htmlItems' = r
  /\ response' = IF ~r.null /\ Len(r.list) > 0 THEN Found(r.list, sourceUrl)
                 ELSE [Degraded(sourceUrl) EXCEPT !.status = 502]
  /\ pc' = "done"
  /\ trace' = tr

\* GET after tryHtmlSearch has returned r: respond, or degrade.
AfterHtmlSearch(r, tr) ==
  /\ htmlItems' = r
  /\ response' = IF ~r.null /\ Len(r.list) > 0 THEN Found(r.list, sourceUrl)
                 ELSE Degraded(sourceUrl)
  /\ pc' = "done"
  /\ trace' = tr

\* GET from the request to its first await, or to an early response.
SchemesGET ==
  /\ pc = "request" /\ req.endpoint = "schemes"
  /\ LET state == ToString(Or(req.state, Str(<<>>)))
         district == ToString(Or(req.district, Str(<<>>)))
         query == Query(state, district)
     IN IF state = <<>>
        THEN /\ response' = MissingState
             /\ pc' = "done"
             /\ UNCHANGED <<sourceUrl, url, inflight, trace>>
        ELSE /\ sourceUrl' = searchUrl(query)
             /\ IF IsNagpur(district)
                THEN /\ response' = MockMode(searchUrl(query))
                     /\ pc' = "done"
                     /\ UNCHANGED <<url, inflight, trace>>
                ELSE /\ url' = searchUrl(query)
                     /\ pc' = "fetchNextData"
                     /\ inflight' = inflight + 1
                     /\ trace' = <<"trySearchNextData", "fetch">>
                     /\ response' = response
  /\ UNCHANGED <<caller, req, jsonItems, htmlItems, err, answer>>
  /\ UNCHANGED treeVars /\ UNCHANGED anchorVars

\* trySearchNextData resumes with the outcome of its fetch.
FetchTextNextData ==
  /\ pc = "fetchNextData"
  /\ \E out \in FetchOutcomes :
       LET html == fetchText(out)
           nextData == extractNextDataFromHtml(html.page)
           tr == Append(trace, IF html.null THEN "null" ELSE "text")
       IN IF NoHtml(html) \/ ~Truthy(nextData)
          THEN /\ AfterNextData(NullItems, Append(tr, "nextData:null"), inflight - 1)
               /\ UNCHANGED treeVars
          ELSE /\ heap' = html.page.nd.heap
               /\ stack' = <<nextData>>
               /\ visited' = {}
               /\ expanded' = <<>>
               /\ items' = <<>>
               /\ pc' = "scan"
               /\ inflight' = inflight - 1
               /\ trace' = tr
               /\ UNCHANGED <<jsonItems, response, collected>>
  /\ UNCHANGED <<caller, req, sourceUrl, url, htmlItems, err, answer>>
  /\ UNCHANGED anchorVars

\* ScanStep with a fault: the popped node is not looked up in visited.
ScanStep_NoVisitedCheck ==
  /\ pc = "scan" /\ stack # <<>>
  /\ LET cur == stack[Len(stack)]
         rest == SubSeq(stack, 1, Len(stack) - 1)
     IN IF ~Truthy(cur) \/ ~IsObject(cur)
        THEN /\ stack' = rest
             /\ UNCHANGED <<visited, expanded, items>>
        ELSE LET r == VisitEntries(heap, heap[cur.n].kids, items, rest, url)
             IN /\ visited' = visited \cup {cur.n}
                /\ expanded' = Append(expanded, cur.n)
                /\ stack' = r.stack
                /\ items' = r.items
  /\ UNCHANGED <<pc, caller, url, heap, collected>>
  /\ UNCHANGED handlerVars /\ UNCHANGED anchorVars

\* One iteration of the scanner's while loop: pop, skip or expand.
ScanStep ==
  /\ pc = "scan" /\ stack # <<>>
  /\ LET cur == stack[Len(stack)]
         rest == SubSeq(stack, 1, Len(stack) - 1)
     IN IF ~Truthy(cur) \/ ~IsObject(cur) \/ cur.n \in visited
        THEN /\ stack' = rest
             /\ UNCHANGED <<visited, expanded, items>>
        ELSE LET r == VisitEntries(heap, heap[cur.n].kids, items, rest, url)
             IN /\ visited' = visited \cup {cur.n}
                /\ expanded' = Append(expanded, cur.n)
                /\ stack' = r.stack
                /\ items' = r.items
  /\ UNCHANGED <<pc, caller, url, heap, collected>>
  /\ UNCHANGED handlerVars /\ UNCHANGED anchorVars

\* The stack is empty: the scanner returns its items, deduplicated by href.
ScanReturn ==
  /\ pc = "scan" /\ stack = <<>>
  /\ collected' = DedupByHref(items)
  /\ pc' = "collected"
  /\ UNCHANGED <<caller, url, heap, stack, visited, expanded, items>>
  /\ UNCHANGED handlerVars /\ UNCHANGED anchorVars

\* trySearchNextData returns the scanner's items (null when empty) to GET.
TrySearchNextDataReturn ==
  /\ pc = "collected" /\ caller = "GET"
  /\ LET r == NonEmptyOrNull(collected)
     IN AfterNextData(r, Append(trace, IF r.null THEN "nextData:null" ELSE "nextData:items"),
                      inflight)
  /\ UNCHANGED <<caller, req, sourceUrl, url, htmlItems, err, answer>>
  /\ UNCHANGED treeVars /\ UNCHANGED anchorVars

\* tryHtmlSearch resumes with the outcome of its fetch; a fault raised while
\* the document is loaded reaches the handler's catch block.
FetchTextHtml ==
  /\ pc = "fetchHtml"
  /\ inflight' = inflight - 1
  /\ \E out \in FetchOutcomes :
       LET html == fetchText(out)
           tr == Append(trace, IF html.null THEN "null" ELSE "text")
       IN IF NoHtml(html)
          THEN /\ AfterHtmlSearch(NullItems, Append(tr, "html:null"))
               /\ UNCHANGED err
               /\ UNCHANGED anchorVars
          ELSE \/ /\ els' = html.page.anchors
                  /\ seen' = {}
                  /\ anchorItems' = <<>>
                  /\ pc' = "each"
                  /\ trace' = tr
                  /\ UNCHANGED <<htmlItems, response, anchored, err>>
               \/ \E e \in Faults :
                    /\ err' = e
                    /\ response' = Unexpected(e, sourceUrl)
                    /\ pc' = "done"
                    /\ trace' = Append(tr, "html:throw")
                    /\ UNCHANGED htmlItems
                    /\ UNCHANGED anchorVars
  /\ UNCHANGED <<caller, req, sourceUrl, url, jsonItems, answer>>
  /\ UNCHANGED treeVars

\* .each reaches the next <a> element; the callback runs when it is selected.
EachAnchor ==
  /\ pc = "each" /\ els # <<>>
  /\ LET el == Head(els)
         r == eachAnchor(seen, anchorItems, el, url)
     IN /\ els' = Tail(els)
        /\ IF Selected(el)
           THEN seen' = r.seen /\ anchorItems' = r.items
           ELSE UNCHANGED <<seen, anchorItems>>
  /\ UNCHANGED <<pc, caller, url, anchored>>
  /\ UNCHANGED handlerVars /\ UNCHANGED treeVars

\* .each is over: tryHtmlSearch has its items, or null when there are none.
EachReturn ==
  /\ pc = "each" /\ els = <<>>
  /\ anchored' = NonEmptyOrNull(anchorItems)
  /\ pc' = "anchored"
  /\ UNCHANGED <<caller, url, els, seen, anchorItems>>
  /\ UNCHANGED handlerVars /\ UNCHANGED treeVars

\* tryHtmlSearch returns to GET.
TryHtmlSearchReturn ==
  /\ pc = "anchored" /\ caller = "GET"
  /\ AfterHtmlSearch(anchored,
                     Append(trace, IF anchored.null THEN "html:null" ELSE "html:items"))
  /\ UNCHANGED <<caller, req, sourceUrl, url, jsonItems, inflight, err, answer>>
  /\ UNCHANGED treeVars /\ UNCHANGED anchorVars

\* ---------------------------------------------------------------- /api/geo
\* STATE_NORMALIZE[trimmed] ?? trimmed
STATE_NORMALIZE(name) ==
  CASE name = <<"NCT of Delhi">> -> <<"Delhi">>
    [] name = <<"National Capital Territory of Delhi">> -> <<"Delhi">>
    [] name = <<"Jammu and Kashmir">> -> <<"Jammu & Kashmir">>
    [] name = <<"Andaman and Nicobar Islands">> -> <<"Andaman & Nicobar Islands">>
    [] name = <<"Dadra and Nagar Haveli and Daman and Diu">>
         -> <<"Dadra & Nagar Haveli and Daman & Diu">>
    [] name = <<"Orissa">> -> <<"Odisha">>
    [] name = <<"Pondicherry">> -> <<"Puducherry">>
    [] OTHER -> name

\* normalizeStateName of a null or string input
normalizeStateName(input) ==
  IF ~Truthy(input) THEN Null ELSE Str(STATE_NORMALIZE(Trim(input.s)))

\* input.trim() is not a function: a truthy input that is not a string
TrimThrows(input) == Truthy(input) /\ input.k # "string"

Addresses ==
  [state_district : {Undef, Str(<<"Khordha">>)},
   district : {Undef, Str(<<"Puri">>)},
   county : {Undef, Str(<<>>), Str(<<"Cuttack">>)},
   state : {Undef, Str(<<>>), Str(<<" ", "Orissa", "\n">>), Str(<<"Kerala">>),
            Str(<<"NCT of Delhi">>), Num(5)}]

\* What the reverse-geocoding call does: fetch rejects; it resolves with a
\* status that is not ok; it resolves ok and res.json() rejects or gives data
\* (null, or an object whose address may be missing).
GeoOutcomes ==
  [kind : {"throw"}, status : {0}, message : {Str(<<"fetch failed">>), Str(<<>>)},
   data : {"none"}, address : {NoAddress}]
  \cup [kind : {"status"}, status : {403, 500}, message : {Undef},
        data : {"none"}, address : {NoAddress}]
  \cup [kind : {"ok"}, status : {200}, message : {Str(<<"Unexpected token">>)},
        data : {"unparsable"}, address : {NoAddress}]
  \cup [kind : {"ok"}, status : {200}, message : {Undef},
        data : {"null", "object"}, address : {NoAddress}]
  \cup [kind : {"ok"}, status : {200}, message : {Undef},
        data : {"object"}, address : Addresses]

MissingLatLon ==
  [NoResponse EXCEPT !.status = 400, !.keys = {"state", "district", "error"},
                     !.state = Null, !.district = Null, !.error = <<"Missing lat/lon">>]

GeocodeFailed(status) ==
  [NoResponse EXCEPT !.status = 502, !.keys = {"state", "district", "error"},
                     !.state = Null, !.district = Null,
                     !.error = <<"Reverse geocode failed: ", status>>]

\* the catch block of the geo handler
GeocodeError(message) ==
  [NoResponse EXCEPT !.status = 500, !.keys = {"state", "district", "error"},
                     !.state = Null, !.district = Null,
                     !.error = ToString(Or(message, Str(<<"Reverse geocode error">>)))]

Resolved(addr) ==
  [NoResponse EXCEPT !.status = 200, !.keys = {"state", "district", "raw"},
                     !.state = normalizeStateName(Or(addr.state, Null)),
                     !.district = Or(Or(Or(addr.state_district, addr.district),
                                        addr.county), Null),
                     !.raw = addr]

\* GET from the request to its await, or to the validation failure.
RegionGET ==
  /\ pc = "request" /\ req.endpoint = "region"
  /\ IF ~Truthy(req.lat) \/ ~Truthy(req.lon)
     THEN /\ response' = MissingLatLon
          /\ pc' = "done"
          /\ UNCHANGED <<inflight, trace>>
     ELSE /\ pc' = "reverse"
          /\ inflight' = inflight + 1
          /\ trace' = <<"fetch">>
          /\ response' = response
  /\ UNCHANGED <<caller, req, sourceUrl, url, jsonItems, htmlItems, err, answer>>
  /\ UNCHANGED treeVars /\ UNCHANGED anchorVars

\* Reverse with a fault: the upstream status is not looked at.
Reverse_IgnoresStatus(out) ==
  IF out.kind = "throw" THEN GeocodeError(out.message)
  ELSE IF out.kind = "ok" /\ out.data = "unparsable" THEN GeocodeError(out.message)
  ELSE IF TrimThrows(Or(out.address.state, Null))
       THEN GeocodeError(Str(<<"input.trim is not a function">>))
  ELSE Resolved(out.address)

\* The response the handler builds from the outcome of the call.
Reverse(out) ==
  IF out.kind = "throw" THEN GeocodeError(out.message)
  ELSE IF out.kind = "status" THEN GeocodeFailed(out.status)
  ELSE IF out.data = "unparsable" THEN GeocodeError(out.message)
  ELSE IF TrimThrows(Or(out.address.state, Null))
       THEN GeocodeError(Str(<<"input.trim is not a function">>))
  ELSE Resolved(out.address)

\* GET resumes with the outcome of the reverse-geocoding call.
ReverseGeocodeReturn ==
  /\ pc = "reverse"
  /\ \E out \in GeoOutcomes :
       /\ answer' = out
       /\ response' = Reverse(out)
       /\ trace' = Append(trace, out.kind)
  /\ pc' = "done"
  /\ inflight' = inflight - 1
  /\ UNCHANGED <<caller, req, sourceUrl, url, jsonItems, htmlItems, err>>
  /\ UNCHANGED treeVars /\ UNCHANGED anchorVars

\* ----------------------------------------------------------- specifications
ScanNext == ScanStep \/ ScanReturn \/ EachAnchor \/ EachReturn

Next ==
  \/ SchemesGET
  \/ FetchTextNextData
  \/ ScanStep
  \/ ScanReturn
  \/ TrySearchNextDataReturn
  \/ FetchTextHtml
  \/ EachAnchor
  \/ EachReturn
  \/ TryHtmlSearchReturn
  \/ RegionGET
  \/ ReverseGeocodeReturn

\* The two routes, each serving one request.
Spec == Init /\ [][Next]_vars

\* The data handed to the tree scanner: a scalar, or the root of a graph.
InitTree ==
  /\ pc = "scan" /\ caller = "direct" /\ req = NoRequest
  /\ sourceUrl = <<>> /\ url = <<"u">>
  /\ jsonItems = NullItems /\ htmlItems = NullItems
  /\ response = NoResponse /\ inflight = 0 /\ trace = <<>>
  /\ err = NoFault /\ answer = NoAnswer
  /\ \/ heap \in Heaps /\ stack = <<Ref(1)>>
     \/ heap = EmptyHeap /\ stack \in {<<Null>>, <<Num(5)>>, <<Str(<<"x">>)>>}
  /\ visited = {} /\ expanded = <<>> /\ items = <<>> /\ collected = <<>>
  /\ els = <<>> /\ seen = {} /\ anchorItems = <<>> /\ anchored = NullItems

\* The document handed to the anchor scanner.
InitAnchors ==
  /\ pc = "each" /\ caller = "direct" /\ req = NoRequest
  /\ sourceUrl = <<>> /\ url = <<"u">>
  /\ jsonItems = NullItems /\ htmlItems = NullItems
  /\ response = NoResponse /\ inflight = 0 /\ trace = <<>>
  /\ err = NoFault /\ answer = NoAnswer
  /\ heap = EmptyHeap /\ stack = <<>> /\ visited = {} /\ expanded = <<>>
  /\ items = <<>>
  /\ collected = <<>>
  /\ els \in Documents /\ seen = {} /\ anchorItems = <<>> /\ anchored = NullItems

\* The two scanners, each run on every input of the bounded families.
InitScan == InitTree \/ InitAnchors

SpecScan == InitScan /\ [][ScanNext]_vars

\* The reference structures the traversal is run on: those of Shapes, the
\* complete graph (every node refers to every node, itself included), a
\* diamond (the root's children share one child) and a binary tree.
AllNodes == [i \in 1..MaxNodes |-> i]

TraversalShapes ==
  Shapes \cup
  { [n \in NodeIds |-> AllNodes],
    [n \in NodeIds |-> IF n = 1 THEN Others
                       ELSE IF n < MaxNodes THEN <<MaxNodes>> ELSE <<>>],
    [n \in NodeIds |-> IF 2 * n + 1 <= MaxNodes THEN <<2 * n, 2 * n + 1>>
                       ELSE IF 2 * n <= MaxNodes THEN <<2 * n>> ELSE <<>>] }

TraversalHeaps ==
  { [n \in NodeIds |-> [node |-> f[n], kids |-> sh[n]]] :
      f \in [NodeIds -> {ArrayNode, Plain}], sh \in TraversalShapes }

\* The graph handed to the tree scanner, its nodes arrays or plain objects.
InitTraverse ==
  /\ pc = "scan" /\ caller = "direct" /\ req = NoRequest
  /\ sourceUrl = <<>> /\ url = <<"u">>
  /\ jsonItems = NullItems /\ htmlItems = NullItems
  /\ response = NoResponse /\ inflight = 0 /\ trace = <<>>
  /\ err = NoFault /\ answer = NoAnswer
  /\ heap \in TraversalHeaps /\ stack = <<Ref(1)>>
  /\ visited = {} /\ expanded = <<>> /\ items = <<>> /\ collected = <<>>
  /\ els = <<>> /\ seen = {} /\ anchorItems = <<>> /\ anchored = NullItems

TraverseNext == ScanStep \/ ScanReturn

\* The tree scanner runs to completion: a synchronous while loop takes its
\* next iteration whenever there is one.
SpecTraverse == InitTraverse /\ [][TraverseNext]_vars /\ WF_vars(TraverseNext)

\* ================================================================== claims
Count(tr, e) == Cardinality({i \in 1..Len(tr) : tr[i] = e})

SchemesRequest == req.endpoint = "schemes"

StateGiven == req.state # Null /\ req.state # Str(<<>>)

\* the districts of the requests that contain "nagpur" in some letter case
NagpurDistricts ==
  {Str(<<"N", "a", "g", "p", "u", "r">>),
   Str(<<"E", " ", "N", "A", "G", "P", "U", "R", " ", "x">>)}

\* the search deep link of a request, written out piece by piece
DeepLink(r) ==
  <<"https://www.myscheme.gov.in/search", "?q=">>
    \o [i \in 1..Len(r.state.s) |-> IF r.state.s[i] = " " THEN "+" ELSE r.state.s[i]]
    \o (IF r.district.k = "string" /\ Len(r.district.s) > 0
        THEN <<"+">> \o r.district.s ELSE <<>>)

\* C1: while a schemes request is served, at most one fetch is in flight and
\* at most two are made; tryHtmlSearch starts only right after
\* trySearchNextData has returned null; a strategy that returns items is the
\* last thing that happens, and the response carries exactly its items.
C1_SequentialPriorityOrder ==
  SchemesRequest =>
    /\ inflight \in {0, 1}
    /\ Count(trace, "fetch") <= 2
    /\ \A i \in 1..Len(trace) :
         /\ trace[i] = "tryHtmlSearch" => (i > 1 /\ trace[i - 1] = "nextData:null")
         /\ trace[i] \in {"nextData:items", "html:items"} =>
              /\ i = Len(trace)
              /\ pc = "done"
              /\ response.status = 200
              /\ response.items # <<>>
              /\ response.items = (IF trace[i] = "nextData:items" THEN collected
                                   ELSE anchorItems)

\* C1 witness: the structured-data strategy scanned a graph and found nothing,
\* then the anchor strategy ran and its items were returned.
C1_Witness ==
  /\ pc = "done"
  /\ trace = <<"trySearchNextData", "fetch", "text", "nextData:null",
               "tryHtmlSearch", "fetch", "text", "html:items">>
  /\ visited # {}
  /\ response.items = anchorItems /\ Len(anchorItems) > 0

\* C2: when every fetchText returned null, a request with a state and a
\* district without "nagpur" is answered 200 with no items, the deep link of
\* its query and the failure note; nothing was thrown.
C2_AllFetchesNullDegrades ==
  (/\ pc = "done" /\ SchemesRequest /\ StateGiven
   /\ req.district \notin NagpurDistricts
   /\ Count(trace, "text") = 0)
  => /\ response.status = 200
     /\ response.keys = {"items", "sourceUrl", "note"}
     /\ response.items = <<>>
     /\ response.sourceUrl = DeepLink(req)
     /\ response.note = DegradeNote
     /\ err = NoFault
     /\ Count(trace, "null") = 2

\* C2 witness: Odisha / Khordha, both fetches failed, the degraded response
\* links to the search for "Odisha Khordha".
C2_Witness ==
  /\ pc = "done"
  /\ req.state = Str(<<"Odisha">>)
  /\ trace = <<"trySearchNextData", "fetch", "null", "nextData:null",
               "tryHtmlSearch", "fetch", "null", "html:null">>
  /\ response.sourceUrl =
       <<"https://www.myscheme.gov.in/search", "?q=", "Odisha", "+",
         "K", "h", "o", "r", "d", "h", "a">>

\* C3: a schemes request is answered 400 exactly when state is missing or
\* empty and 200 otherwise; a fault caught by the handler gives a 200 response
\* with no items, the deep link, a note and the fault's message.
C3_StatusCodes ==
  (pc = "done" /\ SchemesRequest)
  => /\ response.status = 400 <=> ~StateGiven
     /\ response.status \in {200, 400}
     /\ Count(trace, "html:throw") > 0 =>
          /\ response.status = 200
          /\ response.items = <<>>
          /\ response.sourceUrl = DeepLink(req)
          /\ {"note", "error"} \subseteq response.keys
          /\ response.note # <<>>
          /\ response.error # <<>>
          /\ (err.message.k = "string" /\ err.message.s # <<>>)
               => response.error = err.message.s

\* C3 witness: a fault with a message was caught and reported in the body.
C3_Witness ==
  /\ pc = "done" /\ SchemesRequest
  /\ Count(trace, "html:throw") = 1
  /\ err.message = Str(<<"boom">>)
  /\ response.error = <<"boom">>

\* C4: a request with a state whose district contains "nagpur" in any letter
\* case never fetches, and is answered 200 with the 12 curated items and the
\* curated-data note.
C4_NagpurCurated ==
  (SchemesRequest /\ StateGiven /\ req.district \in NagpurDistricts)
  => /\ trace = <<>> /\ inflight = 0
     /\ pc \in {"request", "done"}
     /\ pc = "done" =>
          /\ response.status = 200
          /\ response.items = MOCK_NAGPUR_SCHEMES
          /\ Len(response.items) = 12
          /\ response.note = <<"Showing curated Nagpur schemes (mock data).">>

\* C4 witness: the district "E NAGPUR x" was answered with the curated list.
C4_Witness ==
  /\ pc = "done" /\ StateGiven
  /\ req.district = Str(<<"E", " ", "N", "A", "G", "P", "U", "R", " ", "x">>)
  /\ Len(response.items) = 12

NoWhitespaceAtEnds(t) == t # <<>> => (Head(t) \notin WS /\ t[Len(t)] \notin WS)

Hrefs(its) == {its[i].href : i \in 1..Len(its)}

\* the index of the first item of its with href h
FirstWith(its, h) ==
  CHOOSE i \in 1..Len(its) :
    its[i].href = h /\ \A j \in 1..(i - 1) : its[j].href # h

\* C5: the list the tree scanner returns holds no two items with one href.
C5_NoDuplicateHref ==
  pc = "collected" =>
    \A i, j \in 1..Len(collected) :
      i # j => collected[i].href # collected[j].href

\* C5 witness: a cyclic graph (the last node refers back to the root) in
\* which two candidates with different titles had the same href.
C5_Witness ==
  /\ pc = "collected" /\ caller = "direct"
  /\ heap[MaxNodes].kids = <<1>>
  /\ \E i, j \in 1..Len(items) :
       i < j /\ items[i].href = items[j].href /\ items[i].title # items[j].title
  /\ Len(collected) < Len(items)

\* C6: of the candidates with one href, the returned list holds the first one
\* discovered (its title and description), and the returned items stand in
\* the order of their first discovery.
C6_FirstOccurrenceKept ==
  pc = "collected" =>
    /\ \A k \in 1..Len(collected) :
         collected[k] = items[FirstWith(items, collected[k].href)]
    /\ \A k, l \in 1..Len(collected) :
         k < l => FirstWith(items, collected[k].href) < FirstWith(items, collected[l].href)

\* an absolute http(s) URL
IsAbsoluteUrl(h) ==
  \/ StartsWith(h, <<"h", "t", "t", "p", ":", "/", "/">>)
  \/ StartsWith(h, <<"h", "t", "t", "p", "s", ":", "/", "/">>)

\* a path made of one slash and the route prefix scheme/ or schemes/
IsSchemeRoute(h) ==
  \/ StartsWith(h, <<"/", "s", "c", "h", "e", "m", "e", "/">>)
  \/ StartsWith(h, <<"/", "s", "c", "h", "e", "m", "e", "s", "/">>)

\* C7: every href the tree scanner returns is an absolute URL or a path with
\* one leading slash followed by scheme/ or schemes/; any other candidate is
\* dropped.
C7_OnlyRecognizedHrefs ==
  pc = "collected" =>
    \A i \in 1..Len(collected) :
      IsAbsoluteUrl(collected[i].href) \/ IsSchemeRoute(collected[i].href)

\* the shape of the title and description of an emitted item
WellFormedText(i) ==
  /\ i.title # <<>>
  /\ NoWhitespaceAtEnds(i.title)
  /\ i.hasDescription => (i.description # <<>> /\ NoWhitespaceAtEnds(i.description))
  /\ ~i.hasDescription => i.description = NoDescription

AllItems(its, P(_)) == \A i \in 1..Len(its) : P(its[i])

\* C8: every item either scanner emits has a non-empty title without leading
\* or trailing whitespace, and a description that is absent or non-empty and
\* without leading or trailing whitespace.
C8_TrimmedNonEmptyText ==
  /\ AllItems(items, WellFormedText)
  /\ AllItems(collected, WellFormedText)
  /\ AllItems(anchorItems, WellFormedText)
  /\ AllItems(anchored.list, WellFormedText)

\* C8 witness: the tree scanner returned the item of { title: " A ",
\* description: " d\n" } as "A" / "d", returned an item without description,
\* and was offered a child whose title is whitespace only.
C8_Witness ==
  /\ pc = "collected" /\ caller = "direct"
  /\ \E i \in 1..Len(collected) :
       collected[i].title = <<"A">> /\ collected[i].description = <<"d">>
  /\ \E i \in 1..Len(collected) : ~collected[i].hasDescription
  /\ \E n \in visited \ {1} : heap[n].node.title = Str(<<" ", "\t">>)

\* C9: every item the anchor scanner emits has no description or one of at
\* least 21 characters.
C9_DescriptionAtLeast21 ==
  /\ AllItems(anchorItems, LAMBDA i : i.hasDescription => Len(i.description) >= 21)
  /\ AllItems(anchored.list, LAMBDA i : i.hasDescription => Len(i.description) >= 21)

\* C9 witness: one anchor got a description of exactly 21 characters, another
\* whose paragraph collapses to 20 characters got none.
C9_Witness ==
  /\ pc = "anchored" /\ caller = "direct"
  /\ \E i \in 1..Len(anchored.list) :
       anchored.list[i].hasDescription /\ Len(anchored.list[i].description) = 21
  /\ \E i \in 1..Len(anchored.list) :
       anchored.list[i].title = <<"F">> /\ ~anchored.list[i].hasDescription

RegionRequest == req.endpoint = "region"

LatLonMissing ==
  req.lat = Null \/ req.lat = Str(<<>>) \/ req.lon = Null \/ req.lon = Str(<<>>)

\* the call rejected, res.json() rejected, or reading the fields of the
\* answer threw (a state that is not a string has no trim)
CallOrParsingThrew ==
  \/ answer.kind = "throw"
  \/ answer.kind = "ok" /\ answer.data = "unparsable"
  \/ answer.kind = "ok" /\ answer.address.state.k = "number" /\ answer.address.state.n # 0

\* C10: a region request is answered 400 without any call when lat or lon is
\* missing, 502 when the service answers with a status that is not ok, 500
\* when the call or the reading of its answer throws, and 200 otherwise; every
\* request ends in one of these four responses.
C10_RegionStatus ==
  RegionRequest =>
    /\ LatLonMissing => (trace = <<>> /\ inflight = 0 /\ pc \in {"request", "done"})
    /\ pc \in {"request", "reverse", "done"}
    /\ pc = "done" =>
         /\ response.status \in {200, 400, 500, 502}
         /\ response.status = 400 <=> LatLonMissing
         /\ response.status = 502 <=> (~LatLonMissing /\ answer.kind = "status")
         /\ response.status = 500 <=> (~LatLonMissing /\ CallOrParsingThrew)

\* C10 witness: the service answered ok with text that is not JSON and the
\* request was answered 500.
C10_Witness ==
  /\ pc = "done" /\ RegionRequest
  /\ answer.kind = "ok" /\ answer.data = "unparsable"
  /\ response.status = 500

\* no node occurs twice among the expanded nodes, and they are the visited ones
ExpandedAtMostOnce ==
  /\ \A i, j \in 1..Len(expanded) : i # j => expanded[i] # expanded[j]
  /\ {expanded[i] : i \in 1..Len(expanded)} = visited

\* C11: on every graph of the family, cyclic ones and ones with nodes
\* referenced from several parents included, no node is expanded twice and
\* the traversal ends: the scanner returns.
C11_TerminatesExpandingOnce ==
  /\ [](ExpandedAtMostOnce)
  /\ (pc = "scan") ~> (pc = "collected")

\* C11 witness: the scanner returned on a graph whose root refers to node 2
\* twice and whose other nodes all refer back to the root; every node was
\* expanded.
C11_Witness ==
  /\ pc = "collected" /\ caller = "direct"
  /\ heap[1].kids = Others \o <<2>>
  /\ \A n \in NodeIds \ {1} : heap[n].kids = <<1>>
  /\ Len(expanded) = MaxNodes

\* the nodes reachable from the nodes of S along the references of h
RECURSIVE ReachableFrom(_, _)
ReachableFrom(h, S) ==
  LET T == S \cup UNION {{h[n].kids[i] : i \in 1..Len(h[n].kids)} : n \in S}
  IN IF T = S THEN S ELSE ReachableFrom(h, T)

\* the trimmed title of an object: title or name
TitleOf(o) == Trim(ToString(Or(Or(o.title, o.name), Str(<<>>))))

\* the href of an object: slug, path or url, trimmed and normalised
HrefOf(o) ==
  SlugHref(Trim(ToString(Or(Or(Or(o.slug, o.path), o.url), Str(<<>>)))))

\* an object with a title-like and a location-like field, a non-empty trimmed
\* title and an href that is an absolute URL or a scheme route
AcceptableScheme(o) ==
  /\ LooksLikeScheme(o)
  /\ TitleOf(o) # <<>>
  /\ HrefOf(o) # <<>>
  /\ IsAbsoluteUrl(HrefOf(o)) \/ IsSchemeRoute(HrefOf(o))

\* C12: every object reachable from the root, the root itself included, that
\* has the scheme shape, a non-empty trimmed title and an acceptable href has
\* an item with its href in the list the tree scanner returns.
C12_EveryReachableSchemeEmitted ==
  (pc = "collected" /\ heap # EmptyHeap) =>
    \A n \in ReachableFrom(heap, {1}) :
      AcceptableScheme(heap[n].node) =>
        \E i \in 1..Len(collected) : collected[i].href = HrefOf(heap[n].node)

====
